---- MODULE Spec2Model ----
(***************************************************************************)
(* Receipt persistence and reconciliation core of the receipt tracker:     *)
(*   - services/database.ts : the dual-backend storage adapter             *)
(*       (AsyncStorage document blob on web, SQLite tables on mobile)      *)
(*   - store/receiptStore.ts : the zustand store that writes through the   *)
(*       adapter and reloads the full list after every mutation            *)
(* Every `await` of the source is a suspension point: the code between two *)
(* awaits of one call is one atomic step, and steps of different calls     *)
(* interleave.                                                             *)
(***************************************************************************)
EXTENDS Integers, Sequences, FiniteSets

(***************************************************************************)
(* Bounds of the model                                                     *)
(***************************************************************************)
\* total number of top-level calls issued in one run
MaxOps == 2
\* total number of injected backend faults in one run
MaxFaults == 1
\* the clock (CURRENT_TIMESTAMP / new Date()) runs over 0..MaxTime; it is read,
\* and may be found advanced, by the steps that write a timestamp
MaxTime == 1

\* openDatabaseSync calls that succeeded are counted up to MaxOpens
MaxOpens == 2

\* the call slots: calls that may be in flight at the same time
Procs == {1, 2}

(***************************************************************************)
(* JavaScript values                                                       *)
(***************************************************************************)
\* undefined / null for string-valued fields, undefined for numeric fields
Undef == "undefined"
Null == "null"
UndefN == -1

\* truthiness of a string-valued / numeric field
FalsyS(s) == s \in {Undef, Null, ""}
FalsyN(n) == n <= 0
\* a || b
OrS(a, b) == IF FalsyS(a) THEN b ELSE a
OrN(a, b) == IF FalsyN(a) THEN b ELSE a

\* Number.prototype.toString / parseInt over the row ids the model can reach
IdStr == <<"1", "2", "3", "4", "5", "6", "7", "8", "9", "10", "11", "12",
           "13", "14", "15", "16", "17", "18", "19", "20">>
NumToString(n) == IdStr[n]
\* parseInt(id): the row id, or 0 (no row has it) for a string that is no row id
ParseInt(s) == IF \E n \in 1..Len(IdStr) : IdStr[n] = s
               THEN CHOOSE n \in 1..Len(IdStr) : IdStr[n] = s
               ELSE 0
\* (Date.now() + Math.random()).toString(): a fresh id per save
WebIdStr == <<"w1", "w2", "w3", "w4", "w5", "w6">>
WebId(k) == WebIdStr[k]

\* new Date().toISOString().split('T')[0]
Today == "today"

(***************************************************************************)
(* Payloads: what callers pass to save / update / addReceipt               *)
(***************************************************************************)
NoPayload ==
  [id |-> Undef, merchantName |-> Undef, store |-> Undef, date |-> Undef,
   totalAmount |-> UndefN, total |-> UndefN, taxAmount |-> UndefN, tax |-> UndefN,
   imageUri |-> Undef, category |-> Undef, hasItems |-> FALSE, items |-> <<>>]

Item(id, name, quantity, price, category) ==
  [id |-> id, name |-> name, quantity |-> quantity, price |-> price, category |-> category]

Latte == Item("i1", "Latte", 2, 2, "Dining")
\* an item that leaves quantity and category to their defaults
Tea == Item(Undef, "Tea", UndefN, 3, Undef)

\* a complete draft
DraftFull ==
  [NoPayload EXCEPT !.merchantName = "Cafe X", !.date = "2024-01-01", !.totalAmount = 5,
                    !.taxAmount = 1, !.imageUri = "img1", !.category = "Dining",
                    !.hasItems = TRUE, !.items = <<Latte, Tea>>]
\* a draft that leaves every optional field to its default
DraftMin == [NoPayload EXCEPT !.hasItems = TRUE, !.items = <<Tea>>]

\* a draft that uses only the legacy field names
DraftLegacy ==
  [NoPayload EXCEPT !.store = "Old Name", !.total = 9, !.tax = 2, !.date = "2024-01-01",
                    !.hasItems = TRUE, !.items = <<Latte>>]

Drafts == {DraftFull, DraftMin, DraftLegacy}

\* partial payloads of update
PartItems == [NoPayload EXCEPT !.hasItems = TRUE, !.items = <<Latte>>]
PartCategory == [NoPayload EXCEPT !.category = "Groceries"]
PartFields == [NoPayload EXCEPT !.merchantName = "Shop Y", !.totalAmount = 7, !.imageUri = Null]

\* a payload that uses only the legacy field names
PartLegacy == [NoPayload EXCEPT !.store = "Old Name", !.total = 9, !.tax = 2]

\* a payload whose item list is empty
PartEmpty == [NoPayload EXCEPT !.hasItems = TRUE]

Partials == {PartItems, PartCategory, PartFields, PartLegacy, PartEmpty}


(***************************************************************************)
(* State                                                                   *)
(***************************************************************************)
VARIABLES
  \* Platform.OS: "web" (AsyncStorage blob) or "mobile" (SQLite), fixed per process
  platform,
  \* web: the parsed value of AsyncStorage key 'receipts' (null reads as [])
  blob,
  \* web: number of ids drawn so far from Date.now() + Math.random()
  webSeq,
  \* mobile: the global `mobileDb` (0 is null, 1 is a handle of app.db) and the
  \* number of openDatabaseSync calls that succeeded
  mobileDb, opens,
  \* mobile: tables receipts and receipt_items in rowid order, and their
  \* AUTOINCREMENT counters
  tReceipts, tItems, seqReceipts, seqItems,
  \* the clock, the faults injected so far, the calls issued so far
  now, faults, ops,
  \* the zustand store
  receipts, isLoading, error,
  \* per call slot: the top-level call, the adapter function it is in, its
  \* position, its arguments, and its locals
  op, fn, pc, arg, snap, res, conn, outcome

storeVars == <<receipts, isLoading, error>>
backVars == <<blob, webSeq, mobileDb, opens, tReceipts, tItems, seqReceipts, seqItems>>
procVars == <<op, fn, pc, arg, snap, res, conn, outcome>>
vars == <<platform, blob, webSeq, mobileDb, opens, tReceipts, tItems, seqReceipts,
          seqItems, now, faults, ops, receipts, isLoading, error,
          op, fn, pc, arg, snap, res, conn, outcome>>

StoreOps == {"initializeDatabase", "loadReceipts", "addReceipt", "updateReceipt",
             "deleteReceipt"}
Mutators == {"addReceipt", "updateReceipt", "deleteReceipt"}
AdapterOps == {"initDatabase", "getAllReceiptsFromDatabase", "saveReceiptToDatabase",
               "getReceiptById", "updateReceiptInDatabase", "deleteReceiptFromDatabase"}

NoArg == [id |-> Undef, data |-> NoPayload]

(***************************************************************************)
(* The adapter's pure parts                                                *)
(***************************************************************************)
\* saveReceiptToDatabase: the defaults of the receipt fields
SaveFields(d) ==
  [merchantName |-> OrS(d.merchantName, "Unknown Store"),
   date |-> OrS(d.date, Today),
   totalAmount |-> OrN(OrN(d.totalAmount, d.total), 0),
   taxAmount |-> OrN(d.taxAmount, 0),
   imageUri |-> OrS(d.imageUri, Null),
   category |-> OrS(d.category, "Other"),
   items |-> IF d.hasItems THEN d.items ELSE <<>>]

\* a variant of updateReceiptInDatabase that treats the payload as save does
\* and falls back to the defaults, not to the fetched record
UpdateWithoutFallback(d, e) ==
  [merchantName |-> OrS(d.merchantName, "Unknown Store"),
   date |-> OrS(d.date, Today),
   totalAmount |-> OrN(OrN(d.totalAmount, d.total), 0),
   taxAmount |-> OrN(OrN(d.taxAmount, d.tax), 0),
   imageUri |-> IF d.imageUri # Undef THEN d.imageUri ELSE Null,
   category |-> OrS(d.category, "Other"),
   items |-> IF d.hasItems THEN d.items ELSE e.items]

\* updateReceiptInDatabase: the payload's fields with fallback to the fetched record
UpdateFields(d, e) ==
  [merchantName |-> OrS(OrS(d.merchantName, e.merchantName), "Unknown Store"),
   date |-> OrS(OrS(d.date, e.date), Today),
   totalAmount |-> OrN(OrN(OrN(d.totalAmount, d.total), e.totalAmount), 0),
   taxAmount |-> OrN(OrN(OrN(d.taxAmount, d.tax), e.taxAmount), 0),
   imageUri |-> IF d.imageUri # Undef THEN d.imageUri ELSE e.imageUri,
   category |-> OrS(OrS(d.category, e.category), "Other"),
   items |-> IF d.hasItems THEN d.items ELSE e.items]

\* the values bound to one INSERT INTO receipt_items
ItemRow(i, iid, rid) ==
  [id |-> iid, receipt_id |-> rid, name |-> OrS(i.name, "Unknown Item"),
   quantity |-> OrN(i.quantity, 1), price |-> OrN(i.price, 0),
   category |-> OrS(i.category, "Other")]

\* the first k items of a list inserted for receipt rid, ids from seq + 1
ItemRows(items, k, seq, rid) == [j \in 1..k |-> ItemRow(items[j], seq + j, rid)]

\* one row of receipts
ReceiptRow(f, rid, created, updated) ==
  [id |-> rid, merchant_name |-> f.merchantName, date |-> f.date,
   total_amount |-> f.totalAmount, tax_amount |-> f.taxAmount,
   image_uri |-> f.imageUri, category |-> f.category,
   created_at |-> created, updated_at |-> updated]

\* SELECT * FROM receipt_items WHERE receipt_id = ?, mapped to ReceiptItem
RowItems(items, rid) ==
  LET mine == SelectSeq(items, LAMBDA i : i.receipt_id = rid)
  IN [j \in 1..Len(mine) |->
        [id |-> NumToString(mine[j].id), name |-> mine[j].name,
         quantity |-> mine[j].quantity, price |-> mine[j].price,
         category |-> mine[j].category]]

\* a receipts row with its items, mapped to Receipt
RowReceipt(r, items) ==
  [id |-> NumToString(r.id), merchantName |-> r.merchant_name, date |-> r.date,
   totalAmount |-> r.total_amount, taxAmount |-> r.tax_amount,
   imageUri |-> r.image_uri, category |-> r.category,
   items |-> RowItems(items, r.id),
   createdAt |-> r.created_at, updatedAt |-> r.updated_at]

\* ORDER BY created_at DESC; rows of one timestamp stay in rowid order
RECURSIVE ByCreatedDesc(_, _)
ByCreatedDesc(rows, t) ==
  IF t < 0 THEN <<>>
  ELSE SelectSeq(rows, LAMBDA r : r.created_at = t) \o ByCreatedDesc(rows, t - 1)

\* getAllReceiptsFromDatabase, SQLite branch
MobileList(rows, items) ==
  LET sorted == ByCreatedDesc(rows, MaxTime)
  IN [j \in 1..Len(sorted) |-> RowReceipt(sorted[j], items)]

\* getReceiptById, SQLite branch: <<>> is null
MobileGet(rows, items, id) ==
  LET hit == SelectSeq(rows, LAMBDA r : r.id = ParseInt(id))
  IN IF hit = <<>> THEN <<>> ELSE <<RowReceipt(hit[1], items)>>

\* getReceiptById, AsyncStorage branch: receipts.find(...) || null
WebGet(list, id) ==
  LET hit == SelectSeq(list, LAMBDA r : r.id = id)
  IN IF hit = <<>> THEN <<>> ELSE <<hit[1]>>

\* the record saveReceiptToDatabase pushes on the AsyncStorage array
WebNewReceipt(f, k, t) ==
  [id |-> WebId(k), merchantName |-> f.merchantName, date |-> f.date,
   totalAmount |-> f.totalAmount, taxAmount |-> f.taxAmount, imageUri |-> f.imageUri,
   category |-> f.category, items |-> f.items, createdAt |-> t, updatedAt |-> t]

\* receipts[index] = {...receipts[index], <the update's fields>, updatedAt}
WebReplace(list, id, f, t) ==
  LET found == {j \in 1..Len(list) : list[j].id = id}
      index == IF found = {} THEN 0 ELSE CHOOSE j \in found : \A k \in found : j <= k
  IN [j \in 1..Len(list) |->
        IF j = index
        THEN [list[j] EXCEPT !.merchantName = f.merchantName, !.date = f.date,
                             !.totalAmount = f.totalAmount, !.taxAmount = f.taxAmount,
                             !.imageUri = f.imageUri, !.category = f.category,
                             !.items = f.items, !.updatedAt = t]
        ELSE list[j]]

\* what a successful listAll() returns in the current state
ListAll == IF platform = "web" THEN blob ELSE MobileList(tReceipts, tItems)
\* what a successful getById(id) returns in the current state
GetById(id) == IF platform = "web" THEN WebGet(blob, id)
               ELSE MobileGet(tReceipts, tItems, id)

(***************************************************************************)
(* Initial state                                                           *)
(***************************************************************************)
\* A process starts with an empty store, no SQLite handle, and the storage an
\* earlier run of the app left behind: nothing, or the receipt that
\* saveReceiptToDatabase(DraftFull) stored.
Init ==
  /\ platform \in {"web", "mobile"}
  /\ \E stored \in BOOLEAN :
       LET f == SaveFields(DraftFull)
           n == Len(f.items)
       IN /\ blob = IF stored /\ platform = "web"
                    THEN <<WebNewReceipt(f, 1, 0)>> ELSE <<>>
          /\ webSeq = IF stored /\ platform = "web" THEN 1 ELSE 0
          /\ tReceipts = IF stored /\ platform = "mobile"
                         THEN <<ReceiptRow(f, 1, 0, 0)>> ELSE <<>>
          /\ tItems = IF stored /\ platform = "mobile"
                      THEN ItemRows(f.items, n, 0, 1) ELSE <<>>
          /\ seqReceipts = IF stored /\ platform = "mobile" THEN 1 ELSE 0
          /\ seqItems = IF stored /\ platform = "mobile" THEN n ELSE 0
  /\ mobileDb = 0 /\ opens = 0
  /\ now = 0 /\ faults = 0 /\ ops = 0
  /\ receipts = <<>> /\ isLoading = FALSE /\ error = Null
  /\ op = [p \in Procs |-> "none"]
  /\ fn = [p \in Procs |-> "none"]
  /\ pc = [p \in Procs |-> "idle"]
  /\ arg = [p \in Procs |-> NoArg]
  /\ snap = [p \in Procs |-> <<>>]
  /\ res = [p \in Procs |-> <<>>]
  /\ conn = [p \in Procs |-> 0]
  /\ outcome = [p \in Procs |-> "none"]

(***************************************************************************)
(* The store's pure parts                                                  *)
(***************************************************************************)
\* NaN, the value of price * quantity when one of them is undefined
NaN == -2
Times(a, b) == IF a < 0 \/ b < 0 THEN NaN ELSE a * b
Plus(a, b) == IF a < 0 \/ b < 0 THEN NaN ELSE a + b

\* receipt.items.reduce((sum, item) => sum + (item.price * item.quantity), 0)
RECURSIVE ItemsTotal(_)
ItemsTotal(items) ==
  IF items = <<>> THEN 0
  ELSE Plus(ItemsTotal(SubSeq(items, 1, Len(items) - 1)),
            Times(items[Len(items)].price, items[Len(items)].quantity))

\* the object addReceipt hands to saveReceiptToDatabase
AddPayload(r) ==
  LET given == OrN(r.totalAmount, r.total)
      totalAmount == IF FalsyN(given) /\ Len(r.items) > 0 THEN ItemsTotal(r.items)
                     ELSE given
  IN [NoPayload EXCEPT
        !.merchantName = OrS(OrS(r.merchantName, r.store), "Unknown Store"),
        !.date = r.date,
        !.totalAmount = OrN(totalAmount, 0),
        !.taxAmount = OrN(OrN(r.taxAmount, r.tax), 0),
        !.imageUri = r.imageUri,
        !.hasItems = TRUE,
        !.items = [j \in 1..Len(r.items) |->
                     [r.items[j] EXCEPT !.category = OrS(r.items[j].category, "Other")]]]

\* the `error` strings of the store's catch blocks
FailureText(o) ==
  CASE o = "initializeDatabase" -> "Failed to initialize database"
    [] o = "loadReceipts" -> "Failed to load receipts"
    [] o = "addReceipt" -> "Failed to save receipt"
    [] o = "updateReceipt" -> "Failed to update receipt"
    [] o = "deleteReceipt" -> "Failed to delete receipt"

(***************************************************************************)
(* Calls                                                                   *)
(***************************************************************************)
\* No call has just settled.  A call that settles hands its outcome to its
\* caller before any other call takes a step (Finish).
Quiet == \A p \in Procs : pc[p] # "done"

\* the adapter function a top-level call enters first
FirstFn(o) ==
  CASE o \in {"initializeDatabase", "initDatabase"} -> "init"
    [] o \in {"loadReceipts", "getAllReceiptsFromDatabase", "getReceiptInsights"} -> "getAll"
    [] o \in {"addReceipt", "saveReceiptToDatabase"} -> "save"
    [] o = "getReceiptById" -> "getById"
    [] o \in {"updateReceipt", "updateReceiptInDatabase"} -> "updFetch"
    [] o \in {"deleteReceipt", "deleteReceiptFromDatabase"} -> "delete"

ReadFns == {"getAll", "getById", "updFetch"}
WriteFns == {"save", "update", "delete"}

\* the payload saveReceiptToDatabase receives in slot p
SavePayload(p) == IF op[p] = "addReceipt" THEN AddPayload(arg[p].data) ELSE arg[p].data

\* whether one more fault may be injected
MayFail == faults < MaxFaults

\* A function's own catch block: the read functions swallow the error and
\* return [] / null, the others re-throw.
Caught(p, f) ==
  IF f \in ReadFns
  THEN /\ res' = [res EXCEPT ![p] = <<>>]
       /\ pc' = [pc EXCEPT ![p] = "ret"]
  ELSE /\ res' = res
       /\ pc' = [pc EXCEPT ![p] = "thrown"]

\* Slot p enters adapter function f for receipt id: the code up to the
\* function's first await.  keep is the value of the local `res` when f does
\* not assign it.
\*   web:    AsyncStorage.getItem reads the key when it is called
\*   mobile: ensureDatabaseConnection / initMobileDatabase test `mobileDb`
Enter(p, f, id, keep) ==
  /\ fn' = [fn EXCEPT ![p] = f]
  /\ IF platform = "web"
     THEN /\ conn' = conn
          /\ \E fail \in {b \in BOOLEAN : b => (MayFail /\ f \notin WriteFns)} :
               /\ faults' = IF fail THEN faults + 1 ELSE faults
               /\ CASE fail ->
                         /\ snap' = snap
                         /\ IF f \in ReadFns
                            THEN /\ res' = [res EXCEPT ![p] = <<>>]
                                 /\ pc' = [pc EXCEPT ![p] = "ret"]
                            ELSE /\ res' = [res EXCEPT ![p] = keep]
                                 /\ pc' = [pc EXCEPT ![p] = "thrown"]
                    [] ~fail /\ f = "init" ->
                         /\ snap' = snap
                         /\ res' = [res EXCEPT ![p] = keep]
                         /\ pc' = [pc EXCEPT ![p] = "ret"]
                    [] ~fail /\ f = "getAll" ->
                         /\ snap' = snap
                         /\ res' = [res EXCEPT ![p] = blob]
                         /\ pc' = [pc EXCEPT ![p] = "ret"]
                    [] ~fail /\ f \in {"getById", "updFetch"} ->
                         /\ snap' = snap
                         /\ res' = [res EXCEPT ![p] = WebGet(blob, id)]
                         /\ pc' = [pc EXCEPT ![p] = "ret"]
                    [] ~fail /\ f \in WriteFns ->
                         /\ snap' = [snap EXCEPT ![p] = blob]
                         /\ res' = [res EXCEPT ![p] = keep]
                         /\ pc' = [pc EXCEPT ![p] = "wread"]
     ELSE /\ faults' = faults
          /\ snap' = snap
          /\ res' = [res EXCEPT ![p] = keep]
          /\ IF mobileDb # 0
             THEN /\ conn' = [conn EXCEPT ![p] = IF f = "init" THEN 0 ELSE mobileDb]
                  /\ pc' = [pc EXCEPT ![p] = IF f = "init" THEN "ret" ELSE "body"]
             ELSE /\ conn' = conn
                  /\ pc' = [pc EXCEPT ![p] = IF f = "init" THEN "import0" ELSE "import1"]

\* the id a caller names: the id of the first receipt ever saved, whether it
\* is stored or not (not yet, or not any more)
CallerIds == IF platform = "web" THEN {"w1"} ELSE {"1"}

\* the arguments a caller may pass to call o
ArgsOf(o) ==
  CASE o \in {"initializeDatabase", "initDatabase", "loadReceipts",
              "getAllReceiptsFromDatabase"} -> {NoArg}
    [] o \in {"addReceipt", "saveReceiptToDatabase"} ->
         {[id |-> Undef, data |-> d] : d \in Drafts}
    [] o \in {"updateReceipt", "updateReceiptInDatabase"} ->
         {[id |-> i, data |-> d] : i \in CallerIds, d \in Partials}
    [] o \in {"deleteReceipt", "deleteReceiptFromDatabase", "getReceiptById"} ->
         {[id |-> i, data |-> NoPayload] : i \in CallerIds}

\* A caller issues call o with arguments a in the first free slot p.  A store
\* method runs set({ isLoading: true, error: null }) and enters the adapter.
Start(p, o, a) ==
  /\ Quiet
  /\ pc[p] = "idle"
  /\ \A q \in Procs : q < p => pc[q] # "idle"
  /\ ops < MaxOps
  /\ ops' = ops + 1
  /\ op' = [op EXCEPT ![p] = o]
  /\ arg' = [arg EXCEPT ![p] = a]
  /\ outcome' = [outcome EXCEPT ![p] = "none"]
  /\ Enter(p, FirstFn(o), a.id, <<>>)
  /\ IF o \in StoreOps
     THEN isLoading' = TRUE /\ error' = Null
     ELSE UNCHANGED <<isLoading, error>>
  /\ UNCHANGED <<receipts, backVars, platform, now>>

(***************************************************************************)
(* The SQLite connection                                                   *)
(***************************************************************************)
\* a connection on which the PRAGMA was not run
ForeignKeysOff == FALSE

\* PRAGMA foreign_keys = ON, run on every connection before it is used
ForeignKeysOn == TRUE

\* initMobileDatabase after `await import('expo-sqlite')`: openDatabaseSync,
\* the CREATE TABLE IF NOT EXISTS statements, the migration and the PRAGMA.
\* On any error the catch block sets mobileDb to null.  initDatabase, which
\* awaits initMobileDatabase itself, returns when it got a handle and throws
\* when it got null.  A failure that made ensureDatabaseConnection retry may
\* last through the retry, 100 ms later: it is counted once.
Import(p) ==
  /\ Quiet
  /\ pc[p] \in {"import0", "import1", "import2"}
  /\ \E fail \in {b \in BOOLEAN : b => (MayFail \/ pc[p] = "import2")} :
       /\ faults' = IF fail /\ MayFail THEN faults + 1 ELSE faults
       /\ opens' = IF fail \/ opens = MaxOpens THEN opens ELSE opens + 1
       /\ mobileDb' = IF fail THEN 0 ELSE 1
       /\ conn' = [conn EXCEPT ![p] = IF fail \/ pc[p] = "import0" THEN 0 ELSE 1]
       /\ pc' = [pc EXCEPT ![p] = CASE pc[p] = "import0" ->
                                       IF fail THEN "thrown" ELSE "ret"
                                    [] pc[p] = "import1" -> "ens1"
                                    [] pc[p] = "import2" -> "ens2"]
  /\ UNCHANGED <<storeVars, blob, webSeq, tReceipts, tItems, seqReceipts, seqItems,
                 platform, now, ops, op, fn, arg, snap, res, outcome>>

\* ensureDatabaseConnection after its first `mobileDb = await initMobileDatabase()`
FirstAttempt(p) ==
  /\ Quiet
  /\ pc[p] = "ens1"
  /\ mobileDb' = conn[p]
  /\ pc' = [pc EXCEPT ![p] = IF conn[p] # 0 THEN "body" ELSE "retry"]
  /\ UNCHANGED <<storeVars, blob, webSeq, opens, tReceipts, tItems, seqReceipts,
                 seqItems, platform, now, faults, ops, op, fn, arg, snap, res, conn,
                 outcome>>

\* ensureDatabaseConnection after the 100 ms delay: initMobileDatabase again
Retry(p) ==
  /\ Quiet
  /\ pc[p] = "retry"
  /\ IF mobileDb # 0
     THEN /\ conn' = [conn EXCEPT ![p] = mobileDb]
          /\ pc' = [pc EXCEPT ![p] = "ens2"]
     ELSE /\ conn' = conn
          /\ pc' = [pc EXCEPT ![p] = "import2"]
  /\ UNCHANGED <<storeVars, backVars, platform, now, faults, ops,
                 op, fn, arg, snap, res, outcome>>

\* ensureDatabaseConnection after its second `mobileDb = await initMobileDatabase()`:
\* it throws when there is still no handle
SecondAttempt(p) ==
  /\ Quiet
  /\ pc[p] = "ens2"
  /\ mobileDb' = conn[p]
  /\ IF conn[p] # 0
     THEN /\ pc' = [pc EXCEPT ![p] = "body"]
          /\ res' = res
     ELSE Caught(p, fn[p])
  /\ UNCHANGED <<storeVars, blob, webSeq, opens, tReceipts, tItems, seqReceipts,
                 seqItems, platform, now, faults, ops, op, fn, arg, snap, conn, outcome>>

(***************************************************************************)
(* The adapter functions on SQLite, from `await ensureDatabaseConnection()` *)
(* to their return                                                         *)
(***************************************************************************)
\* getAllReceiptsFromDatabase / getReceiptById
MobileRead(p) ==
  /\ Quiet
  /\ pc[p] = "body" /\ fn[p] \in ReadFns
  /\ \E fail \in {b \in BOOLEAN : b => MayFail} :
       /\ faults' = IF fail THEN faults + 1 ELSE faults
       /\ res' = [res EXCEPT ![p] =
                    IF fail THEN <<>>
                    ELSE IF fn[p] = "getAll" THEN MobileList(tReceipts, tItems)
                    ELSE MobileGet(tReceipts, tItems, arg[p].id)]
  /\ pc' = [pc EXCEPT ![p] = "ret"]
  /\ conn' = [conn EXCEPT ![p] = 0]
  /\ UNCHANGED <<storeVars, backVars, platform, now, ops, op, fn, arg, snap,
                 outcome>>

\* saveReceiptToDatabase: INSERT INTO receipts, then one INSERT INTO
\* receipt_items per item.  done is the number of statements that ran before
\* one threw (all of them when none did): there is no transaction.
MobileSave(p) ==
  /\ Quiet
  /\ pc[p] = "body" /\ fn[p] = "save"
  /\ now' \in now..MaxTime
  /\ LET f == SaveFields(SavePayload(p))
         n == Len(f.items)
         rid == seqReceipts + 1
     IN \E done \in {k \in 0..(n + 1) : k <= n => MayFail} :
          /\ faults' = IF done <= n THEN faults + 1 ELSE faults
          /\ IF done = 0
             THEN UNCHANGED <<tReceipts, tItems, seqReceipts, seqItems>>
             ELSE /\ tReceipts' = Append(tReceipts, ReceiptRow(f, rid, now', now'))
                  /\ seqReceipts' = rid
                  /\ tItems' = tItems \o ItemRows(f.items, done - 1, seqItems, rid)
                  /\ seqItems' = seqItems + (done - 1)
          /\ pc' = [pc EXCEPT ![p] = IF done <= n THEN "thrown" ELSE "ret"]
  /\ conn' = [conn EXCEPT ![p] = 0]
  /\ UNCHANGED <<storeVars, blob, webSeq, mobileDb, opens, platform, ops,
                 op, fn, arg, snap, res, outcome>>

\* DELETE FROM receipts WHERE id = ?, cascading to receipt_items
MobileDelete(p) ==
  /\ Quiet
  /\ pc[p] = "body" /\ fn[p] = "delete"
  /\ LET rid == ParseInt(arg[p].id)
     IN \E fail \in {b \in BOOLEAN : b => MayFail} :
          /\ faults' = IF fail THEN faults + 1 ELSE faults
          /\ tReceipts' = IF fail THEN tReceipts
                          ELSE SelectSeq(tReceipts, LAMBDA r : r.id # rid)
          /\ tItems' = IF fail \/ ~ForeignKeysOn THEN tItems
                       ELSE SelectSeq(tItems, LAMBDA i : i.receipt_id # rid)
          /\ pc' = [pc EXCEPT ![p] = IF fail THEN "thrown" ELSE "ret"]
  /\ conn' = [conn EXCEPT ![p] = 0]
  /\ UNCHANGED <<storeVars, blob, webSeq, mobileDb, opens, seqReceipts, seqItems,
                 platform, now, ops, op, fn, arg, snap, res, outcome>>

\* the rows of receipts after UPDATE receipts SET ... WHERE id = rid
UpdatedRows(rows, rid, f, t) ==
  [j \in 1..Len(rows) |->
     IF rows[j].id = rid
     THEN ReceiptRow(f, rid, rows[j].created_at, t)
     ELSE rows[j]]

\* a variant of the update that inserts the new items without the DELETE
KeptItems(items, rid, new, k, seq) == items \o ItemRows(new, k, seq, rid)

\* the rows of receipt_items after DELETE FROM receipt_items WHERE receipt_id =
\* rid and the INSERTs of the first k items of the new list
ReplacedItems(items, rid, new, k, seq) ==
  SelectSeq(items, LAMBDA i : i.receipt_id # rid) \o ItemRows(new, k, seq, rid)

\* updateReceiptInDatabase: UPDATE receipts, DELETE FROM receipt_items, then
\* one INSERT INTO receipt_items per item.  An INSERT for a receipt_id that
\* has no receipts row violates the foreign key and throws.  done is the
\* number of statements that ran before one threw.
MobileUpdate(p) ==
  /\ Quiet
  /\ pc[p] = "body" /\ fn[p] = "update"
  /\ now' \in now..MaxTime
  /\ LET f == res[p][1]
         n == Len(f.items)
         rid == ParseInt(arg[p].id)
         parent == \E j \in 1..Len(tReceipts) : tReceipts[j].id = rid
         orphan == ForeignKeysOn /\ ~parent /\ n > 0
     IN \E done \in {k \in 0..(n + 2) : IF orphan THEN k = 2
                                        ELSE (k < n + 2 => MayFail)} :
          /\ faults' = IF ~orphan /\ done < n + 2 THEN faults + 1 ELSE faults
          /\ tReceipts' = IF done >= 1 THEN UpdatedRows(tReceipts, rid, f, now')
                          ELSE tReceipts
          /\ tItems' = IF done >= 2
                       THEN ReplacedItems(tItems, rid, f.items, done - 2, seqItems)
                       ELSE tItems
          /\ seqItems' = IF done >= 2 THEN seqItems + (done - 2) ELSE seqItems
          /\ pc' = [pc EXCEPT ![p] = IF done < n + 2 THEN "thrown" ELSE "ret"]
  /\ conn' = [conn EXCEPT ![p] = 0]
  /\ UNCHANGED <<storeVars, blob, webSeq, mobileDb, opens, seqReceipts,
                 platform, ops, op, fn, arg, snap, res, outcome>>

(***************************************************************************)
(* The adapter functions on AsyncStorage, from the `await getItem` that    *)
(* read the array into `receipts` to their return.  setItem writes the key *)
(* when it is called.                                                      *)
(***************************************************************************)
\* a variant of the AsyncStorage save that appends to the array as it is stored
\* when it writes, not to the array it read
WebSaveOnStored(p) ==
  /\ Quiet
  /\ pc[p] = "wread" /\ fn[p] = "save"
  /\ now' \in now..MaxTime
  /\ \E fail \in {b \in BOOLEAN : b => MayFail} :
       /\ faults' = IF fail THEN faults + 1 ELSE faults
       /\ blob' = IF fail THEN blob
                  ELSE Append(blob,
                              WebNewReceipt(SaveFields(SavePayload(p)), webSeq + 1, now'))
       /\ webSeq' = IF fail THEN webSeq ELSE webSeq + 1
       /\ pc' = [pc EXCEPT ![p] = IF fail THEN "thrown" ELSE "ret"]
  /\ snap' = [snap EXCEPT ![p] = <<>>]
  /\ UNCHANGED <<storeVars, mobileDb, opens, tReceipts, tItems, seqReceipts, seqItems,
                 platform, ops, op, fn, arg, res, conn, outcome>>

WebSave(p) ==
  /\ Quiet
  /\ pc[p] = "wread" /\ fn[p] = "save"
  /\ now' \in now..MaxTime
  /\ \E fail \in {b \in BOOLEAN : b => MayFail} :
       /\ faults' = IF fail THEN faults + 1 ELSE faults
       /\ blob' = IF fail THEN blob
                  ELSE Append(snap[p],
                              WebNewReceipt(SaveFields(SavePayload(p)), webSeq + 1, now'))
       /\ webSeq' = IF fail THEN webSeq ELSE webSeq + 1
       /\ pc' = [pc EXCEPT ![p] = IF fail THEN "thrown" ELSE "ret"]
  /\ snap' = [snap EXCEPT ![p] = <<>>]
  /\ UNCHANGED <<storeVars, mobileDb, opens, tReceipts, tItems, seqReceipts, seqItems,
                 platform, ops, op, fn, arg, res, conn, outcome>>

WebDelete(p) ==
  /\ Quiet
  /\ pc[p] = "wread" /\ fn[p] = "delete"
  /\ \E fail \in {b \in BOOLEAN : b => MayFail} :
       /\ faults' = IF fail THEN faults + 1 ELSE faults
       /\ blob' = IF fail THEN blob
                  ELSE SelectSeq(snap[p], LAMBDA r : r.id # arg[p].id)
       /\ pc' = [pc EXCEPT ![p] = IF fail THEN "thrown" ELSE "ret"]
  /\ snap' = [snap EXCEPT ![p] = <<>>]
  /\ UNCHANGED <<storeVars, webSeq, mobileDb, opens, tReceipts, tItems, seqReceipts,
                 seqItems, platform, now, ops, op, fn, arg, res, conn, outcome>>

\* updateReceiptInDatabase: findIndex in the array just read; the array is
\* written back only `if (index !== -1)`, otherwise the function returns
WebUpdate(p) ==
  /\ Quiet
  /\ pc[p] = "wread" /\ fn[p] = "update"
  /\ now' \in now..MaxTime
  /\ LET found == \E j \in 1..Len(snap[p]) : snap[p][j].id = arg[p].id
     IN \E fail \in {b \in BOOLEAN : b => (MayFail /\ found)} :
          /\ faults' = IF fail THEN faults + 1 ELSE faults
          /\ blob' = IF fail \/ ~found THEN blob
                     ELSE WebReplace(snap[p], arg[p].id, res[p][1], now')
          /\ pc' = [pc EXCEPT ![p] = IF fail THEN "thrown" ELSE "ret"]
  /\ snap' = [snap EXCEPT ![p] = <<>>]
  /\ UNCHANGED <<storeVars, webSeq, mobileDb, opens, tReceipts, tItems, seqReceipts,
                 seqItems, platform, ops, op, fn, arg, res, conn, outcome>>

\* updateReceiptInDatabase after `await getReceiptById(id)`: it throws
\* 'Receipt not found' for null, else computes the fields and goes on to write.
\* From here on the local `res` holds <<the fields to write, existingReceipt>>.
UpdateFetched(p) ==
  /\ Quiet
  /\ pc[p] = "ret" /\ fn[p] = "updFetch"
  /\ IF res[p] = <<>>
     THEN /\ fn' = [fn EXCEPT ![p] = "update"]
          /\ pc' = [pc EXCEPT ![p] = "thrown"]
          /\ UNCHANGED <<snap, res, conn, faults>>
     ELSE Enter(p, "update", arg[p].id,
                <<UpdateFields(arg[p].data, res[p][1]), res[p][1]>>)
  /\ UNCHANGED <<storeVars, backVars, platform, now, ops, op, arg, outcome>>

\* a call of the adapter itself returns to its caller
AdapterReturn(p) ==
  /\ Quiet
  /\ op[p] \in AdapterOps
  /\ pc[p] \in {"ret", "thrown"} /\ fn[p] # "updFetch"
  /\ outcome' = [outcome EXCEPT ![p] = IF pc[p] = "ret" THEN "resolved" ELSE "rejected"]
  /\ pc' = [pc EXCEPT ![p] = "done"]
  /\ UNCHANGED <<storeVars, backVars, platform, now, faults, ops,
                 op, fn, arg, snap, res, conn>>

(***************************************************************************)
(* The store's methods after their awaits                                  *)
(***************************************************************************)
\* a variant of the store's methods that starts the reload without awaiting
\* the adapter write
ReloadBeforeWrite(p) ==
  /\ Quiet
  /\ op[p] \in Mutators \cup {"initializeDatabase"}
  /\ pc[p] \in {"ret", "body", "wread"} /\ fn[p] \in WriteFns \cup {"init"}
  /\ isLoading' = TRUE /\ error' = Null
  /\ Enter(p, "getAll", Undef, <<>>)
  /\ UNCHANGED <<receipts, backVars, platform, now, ops, op, arg, outcome>>

\* addReceipt / updateReceipt / deleteReceipt after the adapter write
\* returned, and initializeDatabase after initDatabase returned:
\* `await get().loadReceipts()`, which runs set({ isLoading: true, error: null })
\* and calls getAllReceiptsFromDatabase
Reload(p) ==
  /\ Quiet
  /\ op[p] \in Mutators \cup {"initializeDatabase"}
  /\ pc[p] = "ret" /\ fn[p] \in WriteFns \cup {"init"}
  /\ isLoading' = TRUE /\ error' = Null
  /\ Enter(p, "getAll", Undef, <<>>)
  /\ UNCHANGED <<receipts, backVars, platform, now, ops, op, arg, outcome>>

\* a variant of the catch blocks that refreshes the list from storage
WriteFailedReloads(p) ==
  /\ Quiet
  /\ op[p] \in Mutators \cup {"initializeDatabase"}
  /\ pc[p] = "thrown"
  /\ error' = FailureText(op[p])
  /\ isLoading' = FALSE
  /\ receipts' = ListAll
  /\ outcome' = [outcome EXCEPT ![p] = IF op[p] \in Mutators THEN "rejected"
                                       ELSE "resolved"]
  /\ pc' = [pc EXCEPT ![p] = "done"]
  /\ UNCHANGED <<backVars, platform, now, faults, ops, op, fn, arg, snap, res, conn>>

\* the catch and finally blocks of addReceipt / updateReceipt / deleteReceipt
\* (set error, re-throw) and of initializeDatabase (set error, no re-throw)
WriteFailed(p) ==
  /\ Quiet
  /\ op[p] \in Mutators \cup {"initializeDatabase"}
  /\ pc[p] = "thrown"
  /\ error' = FailureText(op[p])
  /\ isLoading' = FALSE
  /\ outcome' = [outcome EXCEPT ![p] = IF op[p] \in Mutators THEN "rejected"
                                       ELSE "resolved"]
  /\ pc' = [pc EXCEPT ![p] = "done"]
  /\ UNCHANGED <<receipts, backVars, platform, now, faults, ops,
                 op, fn, arg, snap, res, conn>>

\* loadReceipts after `await getAllReceiptsFromDatabase()`: set({ receipts }),
\* then finally set({ isLoading: false })
LoadLanded(p) ==
  /\ Quiet
  /\ op[p] \in StoreOps
  /\ pc[p] = "ret" /\ fn[p] = "getAll"
  /\ receipts' = res[p]
  /\ isLoading' = FALSE
  /\ error' = error
  /\ IF op[p] = "loadReceipts"
     THEN /\ outcome' = [outcome EXCEPT ![p] = "resolved"]
          /\ pc' = [pc EXCEPT ![p] = "done"]
     ELSE /\ outcome' = outcome
          /\ pc' = [pc EXCEPT ![p] = "loadret"]
  /\ UNCHANGED <<backVars, platform, now, faults, ops, op, fn, arg, snap, res, conn>>

\* the caller of loadReceipts after `await get().loadReceipts()`: its finally
\* block runs set({ isLoading: false }) and the call resolves
Resolved(p) ==
  /\ Quiet
  /\ pc[p] = "loadret"
  /\ isLoading' = FALSE
  /\ outcome' = [outcome EXCEPT ![p] = "resolved"]
  /\ pc' = [pc EXCEPT ![p] = "done"]
  /\ UNCHANGED <<receipts, error, backVars, platform, now, faults, ops,
                 op, fn, arg, snap, res, conn>>

\* The caller's continuation sees the outcome and the slot is free again.  It
\* is the next thing to run once the call has settled.
Finish(p) ==
  /\ pc[p] = "done"
  /\ pc' = [pc EXCEPT ![p] = "idle"]
  /\ op' = [op EXCEPT ![p] = "none"]
  /\ fn' = [fn EXCEPT ![p] = "none"]
  /\ arg' = [arg EXCEPT ![p] = NoArg]
  /\ snap' = [snap EXCEPT ![p] = <<>>]
  /\ res' = [res EXCEPT ![p] = <<>>]
  /\ conn' = [conn EXCEPT ![p] = 0]
  /\ outcome' = [outcome EXCEPT ![p] = "none"]
  /\ UNCHANGED <<storeVars, backVars, platform, now, faults, ops>>

(***************************************************************************)
(* The scan flow: extractReceiptData, processReceiptImage, addReceipt      *)
(***************************************************************************)
\* String.prototype.trim over the names the model uses
Trim(s) == IF s = " " THEN "" ELSE s

\* what the vision model answered, after JSON.parse
NoExtraction ==
  [merchantName |-> Undef, date |-> Undef, totalAmount |-> UndefN, taxAmount |-> UndefN,
   hasItems |-> FALSE, items |-> <<>>]
\* a total and an empty items array
ExtractEmpty ==
  [NoExtraction EXCEPT !.merchantName = "Cafe X", !.date = "2024-01-01",
                       !.totalAmount = 12, !.taxAmount = 1, !.hasItems = TRUE]
\* no total, and one item whose name is blank
ExtractBlank ==
  [NoExtraction EXCEPT !.hasItems = TRUE,
                       !.items = <<Item(Undef, " ", 1, 4, Undef)>>]
\* a total and one named item
ExtractOne ==
  [NoExtraction EXCEPT !.merchantName = "Cafe X", !.totalAmount = 4, !.hasItems = TRUE,
                       !.items = <<Item(Undef, "Latte", UndefN, 4, "food")>>]
Extractions == {ExtractEmpty, ExtractBlank, ExtractOne}

\* a variant of extractReceiptData whose generic item carries no price
ExtractWithUnpricedPurchase(x) ==
  LET named == SelectSeq(IF x.hasItems THEN x.items ELSE <<>>,
                         LAMBDA i : ~FalsyS(i.name) /\ Trim(i.name) # "")
  IN [merchantName |-> OrS(x.merchantName, "Unknown Store"),
      date |-> OrS(x.date, Today),
      totalAmount |-> OrN(x.totalAmount, 0),
      taxAmount |-> OrN(x.taxAmount, 0),
      items |-> IF named = <<>>
                THEN <<Item(Undef, "Purchase", 1, 0, "other")>>
                ELSE [j \in 1..Len(named) |->
                        Item(Undef, Trim(named[j].name), OrN(named[j].quantity, 1),
                             OrN(named[j].price, 0), OrS(named[j].category, "other"))]]

\* extractReceiptData after JSON.parse: fallbacks for the fields, the items
\* without a name filtered out, and a generic item when none is left
ExtractReceiptData(x) ==
  LET total == OrN(x.totalAmount, 0)
      named == SelectSeq(IF x.hasItems THEN x.items ELSE <<>>,
                         LAMBDA i : ~FalsyS(i.name) /\ Trim(i.name) # "")
  IN [merchantName |-> OrS(x.merchantName, "Unknown Store"),
      date |-> OrS(x.date, Today),
      totalAmount |-> total,
      taxAmount |-> OrN(x.taxAmount, 0),
      items |-> IF named = <<>>
                THEN <<Item(Undef, "Purchase", 1, total, "other")>>
                ELSE [j \in 1..Len(named) |->
                        Item(Undef, Trim(named[j].name), OrN(named[j].quantity, 1),
                             OrN(named[j].price, 0), OrS(named[j].category, "other"))]]

\* Date.now().toString() and `${Date.now()}-${index}`: ids made on the client
ClientId == "c1"
ClientItemIds == <<"c1-0", "c1-1">>

\* processReceiptImage: the extracted data as a Receipt
ProcessReceiptImage(e, imageUri) ==
  [NoPayload EXCEPT
     !.id = ClientId, !.merchantName = e.merchantName, !.date = e.date,
     !.totalAmount = e.totalAmount, !.taxAmount = e.taxAmount, !.imageUri = imageUri,
     !.hasItems = TRUE,
     !.items = [j \in 1..Len(e.items) |-> [e.items[j] EXCEPT !.id = ClientItemIds[j]]],
     !.store = e.merchantName, !.total = e.totalAmount, !.tax = OrN(e.taxAmount, 0),
     !.category = "Other"]

\* the receipts handleImageProcessing passes to addReceipt
Scanned == {ProcessReceiptImage(ExtractReceiptData(x), "img1") : x \in Extractions}

\* the arguments of the calls the screens make: addReceipt comes from the
\* scan screen only
ScreenArgsOf(o) ==
  IF o = "addReceipt" THEN {[id |-> Undef, data |-> d] : d \in Scanned} ELSE ArgsOf(o)

\* receipt.totalAmount || receipt.total || 0 over a receipt of the list
SpentOn(r) ==
  OrN(OrN(r.totalAmount, IF "total" \in DOMAIN r THEN r.total ELSE UndefN), 0)

\* getTotalSpending: receipts.reduce((total, receipt) => total + amount, 0)
RECURSIVE TotalSpending(_)
TotalSpending(rs) ==
  IF rs = <<>> THEN 0
  ELSE Plus(TotalSpending(SubSeq(rs, 1, Len(rs) - 1)), SpentOn(rs[Len(rs)]))

\* getCategorySpending: the reduce over the list, from {}; the result is the
\* object as a function from its keys
RECURSIVE CategorySpending(_)
CategorySpending(rs) ==
  IF rs = <<>> THEN [c \in {} |-> 0]
  ELSE LET acc == CategorySpending(SubSeq(rs, 1, Len(rs) - 1))
           receipt == rs[Len(rs)]
           category == OrS(receipt.category, "Other")
       IN [c \in DOMAIN acc \cup {category} |->
             IF c = category
             THEN Plus(IF c \in DOMAIN acc THEN OrN(acc[c], 0) ELSE 0, SpentOn(receipt))
             ELSE acc[c]]

getTotalSpending == TotalSpending(receipts)
getCategorySpending == CategorySpending(receipts)

\* the store's getReceiptById: state.receipts.find(receipt => receipt.id === id);
\* <<>> is undefined
StoreGetReceiptById(id) ==
  LET hit == SelectSeq(receipts, LAMBDA r : r.id = id)
  IN IF hit = <<>> THEN <<>> ELSE <<hit[1]>>

\* a draft with one item, no total and no category
DraftOne == [NoPayload EXCEPT !.hasItems = TRUE, !.items = <<Latte>>]

\* a payload that sets the amounts to 0
PartZero == [NoPayload EXCEPT !.totalAmount = 0, !.taxAmount = 0]

\* the arguments of a user's calls
UserArgsOf(o) ==
  CASE o = "addReceipt" -> {[id |-> Undef, data |-> d] : d \in {DraftOne, DraftFull}}
    [] o = "updateReceipt" -> ArgsOf(o) \cup {[id |-> i, data |-> PartZero] : i \in CallerIds}
    [] OTHER -> ArgsOf(o)

(***************************************************************************)
(* getReceiptInsights                                                      *)
(***************************************************************************)
\* a receipt written under the legacy field names: no totalAmount, a total
LegacyRecord(k) ==
  [id |-> WebId(k), merchantName |-> Undef, date |-> "2024-01-01",
   totalAmount |-> UndefN, taxAmount |-> UndefN, imageUri |-> Null,
   category |-> Undef, items |-> <<Latte>>, createdAt |-> 0, updatedAt |-> 0,
   store |-> "Old Name", total |-> 9, tax |-> 2]

\* receipts.reduce((sum, receipt) => sum + (receipt.totalAmount || 0), 0)
RECURSIVE SumOfTotals(_)
SumOfTotals(rs) ==
  IF rs = <<>> THEN 0
  ELSE Plus(SumOfTotals(SubSeq(rs, 1, Len(rs) - 1)), OrN(rs[Len(rs)].totalAmount, 0))

\* the items of all receipts, in the order the two forEach loops visit them
RECURSIVE AllItems(_)
AllItems(rs) == IF rs = <<>> THEN <<>> ELSE Head(rs).items \o AllItems(Tail(rs))

\* categoryBreakdown after the loops: the object's entries in insertion order
RECURSIVE Breakdown(_)
Breakdown(items) ==
  IF items = <<>> THEN <<>>
  ELSE LET acc == Breakdown(SubSeq(items, 1, Len(items) - 1))
           item == items[Len(items)]
           category == OrS(item.category, "Other")
           at == {j \in 1..Len(acc) : acc[j].category = category}
       IN IF at = {}
          THEN Append(acc, [category |-> category, total |-> Plus(0, item.price)])
          ELSE [j \in 1..Len(acc) |->
                  IF j \in at
                  THEN [acc[j] EXCEPT !.total = Plus(OrN(acc[j].total, 0), item.price)]
                  ELSE acc[j]]

\* .sort((a, b) => b.total - a.total): descending by total, stable
RECURSIVE SortByTotal(_)
SortByTotal(es) ==
  IF es = <<>> THEN <<>>
  ELSE LET sorted == SortByTotal(SubSeq(es, 1, Len(es) - 1))
           e == es[Len(es)]
           before == SelectSeq(sorted, LAMBDA x : x.total >= e.total)
           after == SelectSeq(sorted, LAMBDA x : x.total < e.total)
       IN before \o <<e>> \o after

\* the quotient a / b of two numbers, b > 0: a whole number when b divides a,
\* the fraction otherwise
Quotient(a, b) == IF a % b = 0 THEN a \div b ELSE <<a, b>>

\* a variant of the average without the test of the length
AverageUnguarded(rs, totalSpending) ==
  IF Len(rs) = 0 THEN NaN ELSE Quotient(totalSpending, Len(rs))

\* receipts.length > 0 ? totalSpending / receipts.length : 0
Average(rs, totalSpending) ==
  IF Len(rs) > 0 THEN Quotient(totalSpending, Len(rs)) ELSE 0

\* the object getReceiptInsights returns for the list it read
Insights(rs) ==
  LET totalSpending == SumOfTotals(rs)
      categoryBreakdown == Breakdown(AllItems(rs))
  IN [totalSpending |-> totalSpending,
      categoryBreakdown |-> categoryBreakdown,
      recentTransactions |-> SubSeq(rs, 1, IF Len(rs) < 5 THEN Len(rs) ELSE 5),
      totalReceipts |-> Len(rs),
      averageSpending |-> Average(rs, totalSpending),
      topCategories |->
        SortByTotal([j \in 1..Len(categoryBreakdown) |->
                       [category |-> categoryBreakdown[j].category,
                        total |-> categoryBreakdown[j].total,
                        count |-> Len(SelectSeq(AllItems(rs),
                                        LAMBDA i : OrS(i.category, "Other") =
                                                     categoryBreakdown[j].category))]])]

\* getReceiptInsights is called
StartInsights(p) == Start(p, "getReceiptInsights", NoArg)

\* getReceiptInsights after `await getAllReceiptsFromDatabase()`: it returns
\* the insights of the list it received
InsightsReturn(p) ==
  /\ Quiet
  /\ op[p] = "getReceiptInsights"
  /\ pc[p] = "ret" /\ fn[p] = "getAll"
  /\ res' = [res EXCEPT ![p] = <<Insights(res[p])>>]
  /\ outcome' = [outcome EXCEPT ![p] = "resolved"]
  /\ pc' = [pc EXCEPT ![p] = "done"]
  /\ UNCHANGED <<storeVars, backVars, platform, now, faults, ops, op, fn, arg, snap, conn>>

\* the receipts storage may hold when the process starts: what
\* saveReceiptToDatabase stored for up to two drafts and, in the AsyncStorage
\* array, receipts written under the legacy names
StoredDrafts == {<<>>} \cup {<<d>> : d \in Drafts} \cup {<<d, e>> : d \in Drafts, e \in Drafts}

InitInsights ==
  /\ platform \in {"web", "mobile"}
  /\ \E ds \in StoredDrafts :
       LET n == Len(ds)
           f == [j \in 1..n |-> SaveFields(ds[j])]
           first == IF n >= 1 THEN Len(f[1].items) ELSE 0
           second == IF n >= 2 THEN Len(f[2].items) ELSE 0
       IN /\ \E legacy \in SUBSET (1..n) :
               /\ platform = "mobile" => legacy = {}
               /\ blob = IF platform = "web"
                         THEN [j \in 1..n |-> IF j \in legacy THEN LegacyRecord(j)
                                              ELSE WebNewReceipt(f[j], j, 0)]
                         ELSE <<>>
          /\ webSeq = IF platform = "web" THEN n ELSE 0
          /\ tReceipts = IF platform = "mobile"
                         THEN [j \in 1..n |-> ReceiptRow(f[j], j, 0, 0)] ELSE <<>>
          /\ tItems = IF platform = "mobile"
                      THEN (IF n >= 1 THEN ItemRows(f[1].items, first, 0, 1) ELSE <<>>)
                           \o (IF n >= 2 THEN ItemRows(f[2].items, second, first, 2)
                               ELSE <<>>)
                      ELSE <<>>
          /\ seqReceipts = IF platform = "mobile" THEN n ELSE 0
          /\ seqItems = IF platform = "mobile" THEN first + second ELSE 0
  /\ mobileDb = 0 /\ opens = 0
  /\ now = 0 /\ faults = 0 /\ ops = 0
  /\ receipts = <<>> /\ isLoading = FALSE /\ error = Null
  /\ op = [p \in Procs |-> "none"]
  /\ fn = [p \in Procs |-> "none"]
  /\ pc = [p \in Procs |-> "idle"]
  /\ arg = [p \in Procs |-> NoArg]
  /\ snap = [p \in Procs |-> <<>>]
  /\ res = [p \in Procs |-> <<>>]
  /\ conn = [p \in Procs |-> 0]
  /\ outcome = [p \in Procs |-> "none"]

(***************************************************************************)
(* Specifications                                                          *)
(***************************************************************************)
\* the steps of the adapter, shared by both kinds of caller
AdapterStep(p) ==
  \/ Import(p) \/ FirstAttempt(p) \/ Retry(p) \/ SecondAttempt(p)
  \/ MobileRead(p) \/ MobileSave(p) \/ MobileDelete(p) \/ MobileUpdate(p)
  \/ WebSave(p) \/ WebDelete(p) \/ WebUpdate(p)
  \/ UpdateFetched(p)

\* the UI calling the store
Next ==
  \/ \E p \in Procs : \E o \in StoreOps : \E a \in ArgsOf(o) : Start(p, o, a)
  \/ \E p \in Procs : AdapterStep(p)
  \/ \E p \in Procs : Reload(p) \/ WriteFailed(p) \/ LoadLanded(p) \/ Resolved(p)
  \/ \E p \in Procs : Finish(p)

Spec == Init /\ [][Next]_vars

\* the screens calling the store
NextScreens ==
  \/ \E p \in Procs : \E o \in StoreOps : \E a \in ScreenArgsOf(o) : Start(p, o, a)
  \/ \E p \in Procs : AdapterStep(p)
  \/ \E p \in Procs : Reload(p) \/ WriteFailed(p) \/ LoadLanded(p) \/ Resolved(p)
  \/ \E p \in Procs : Finish(p)

SpecScreens == Init /\ [][NextScreens]_vars

\* callers of the adapter's exported functions
NextAdapter ==
  \/ \E p \in Procs : \E o \in AdapterOps : \E a \in ArgsOf(o) : Start(p, o, a)
  \/ \E p \in Procs : AdapterStep(p)
  \/ \E p \in Procs : AdapterReturn(p)
  \/ \E p \in Procs : Finish(p)

SpecAdapter == Init /\ [][NextAdapter]_vars

\* a caller that awaits each call of the adapter before it issues the next
StartAlone(p, o, a) ==
  /\ \A q \in Procs : pc[q] = "idle"
  /\ Start(p, o, a)

NextSeq ==
  \/ \E p \in Procs : \E o \in AdapterOps : \E a \in ArgsOf(o) : StartAlone(p, o, a)
  \/ \E p \in Procs : AdapterStep(p)
  \/ \E p \in Procs : AdapterReturn(p)
  \/ \E p \in Procs : Finish(p)

SpecSeq == Init /\ [][NextSeq]_vars

\* a user who awaits each call of the store before making the next
NextUser ==
  \/ \E p \in Procs : \E o \in StoreOps : \E a \in UserArgsOf(o) : StartAlone(p, o, a)
  \/ \E p \in Procs : AdapterStep(p)
  \/ \E p \in Procs : Reload(p) \/ WriteFailed(p) \/ LoadLanded(p) \/ Resolved(p)
  \/ \E p \in Procs : Finish(p)

SpecUser == Init /\ [][NextUser]_vars

\* callers of getReceiptInsights
NextInsights ==
  \/ \E p \in Procs : StartInsights(p)
  \/ \E p \in Procs : Import(p) \/ FirstAttempt(p) \/ Retry(p) \/ SecondAttempt(p)
  \/ \E p \in Procs : MobileRead(p)
  \/ \E p \in Procs : InsightsReturn(p)
  \/ \E p \in Procs : Finish(p)

SpecInsights == InitInsights /\ [][NextInsights]_vars

(***************************************************************************)
(* Properties of the store (checked under Spec)                            *)
(***************************************************************************)
\* slot p holds a call of o that has just settled with the given outcome
Settled(p, o, how) == pc[p] = "done" /\ op[p] = o /\ outcome[p] = how

\* slot p takes a step
Steps(p) == <<pc[p], fn[p]>>' # <<pc[p], fn[p]>>

\* C1: at the moment a call of addReceipt, updateReceipt or deleteReceipt
\* resolves successfully, the store's `receipts` list equals what
\* getAllReceiptsFromDatabase would return at that moment, whatever the
\* interleaving of the calls.
C1_ResolvedListEqualsBackend ==
  \A p \in Procs : \A o \in Mutators :
    Settled(p, o, "resolved") => receipts = ListAll

\* C2: a call of addReceipt, updateReceipt or deleteReceipt whose backend
\* write throws leaves `receipts` as it was: no step of the call up to and
\* including its rejection assigns the list, and a call that rejects has not
\* entered the reload.
C2_FailedMutationKeepsList ==
  [][\A p \in Procs :
       (op[p] \in Mutators /\ Steps(p)) =>
          /\ fn[p] # "getAll" => receipts' = receipts
          /\ outcome'[p] = "rejected" => fn[p] # "getAll"]_vars

\* a mutation was rejected after its backend write had changed storage, while
\* the store held a loaded, non-empty list
C2_Witness ==
  \E p \in Procs : \E o \in Mutators :
    /\ Settled(p, o, "rejected")
    /\ receipts # <<>>
    /\ receipts # ListAll

\* C3: every asynchronous store method whose adapter work fails records a
\* non-null `error` string and re-throws: the promise its caller holds
\* rejects.  (A settled call whose last adapter function is not the reload's
\* getAllReceiptsFromDatabase is one whose adapter work threw.)
C3_FailureRecordedAndRethrown ==
  \A p \in Procs : \A o \in StoreOps :
    (pc[p] = "done" /\ op[p] = o /\ fn[p] # "getAll") =>
       (error # Null /\ outcome[p] = "rejected")

\* C4: `isLoading` is true exactly while at least one asynchronous store
\* method is in flight, also when calls overlap or nest.
C4_LoadingExactlyWhileInFlight ==
  isLoading = (\E p \in Procs : op[p] \in StoreOps /\ pc[p] \notin {"idle", "done"})

(***************************************************************************)
(* Properties of the adapter (checked under SpecSeq and SpecAdapter)       *)
(***************************************************************************)
\* what the data model promises for a field the caller left out
DefaultS(v, d) == IF v = Undef THEN d ELSE v
DefaultN(v, d) == IF v = UndefN THEN d ELSE v

\* an item up to its id, with the defaults of quantity and category
BareItem(i) ==
  [name |-> i.name, quantity |-> DefaultN(i.quantity, 1), price |-> i.price,
   category |-> DefaultS(i.category, "Other")]
\* an item up to its id, as it is
RawItem(i) ==
  [name |-> i.name, quantity |-> i.quantity, price |-> i.price, category |-> i.category]

BareItems(items) == {BareItem(items[j]) : j \in 1..Len(items)}
RawItems(items) == {RawItem(items[j]) : j \in 1..Len(items)}

\* the record a draft is to be read back as
ExpectedOfDraft(d) ==
  [merchantName |-> DefaultS(d.merchantName, "Unknown Store"),
   date |-> DefaultS(d.date, Today),
   totalAmount |-> DefaultN(d.totalAmount, 0),
   taxAmount |-> DefaultN(d.taxAmount, 0),
   category |-> DefaultS(d.category, "Other"),
   items |-> BareItems(d.items)]

\* the same fields of a record that a read returned
Observed(r) ==
  [merchantName |-> r.merchantName, date |-> r.date, totalAmount |-> r.totalAmount,
   taxAmount |-> r.taxAmount, category |-> r.category, items |-> RawItems(r.items)]

\* the step in which adapter function f of slot p writes and returns normally
Writes(p, f) == fn[p] = f /\ pc[p] \in {"body", "wread"} /\ pc'[p] = "ret"

\* C5: save(D) followed by listAll() yields exactly one new record, whose
\* fields are D's fields after default substitution (merchantName 'Unknown
\* Store', date today, totalAmount 0, taxAmount 0, category 'Other', item
\* quantity 1, item category 'Other') and whose items are D's items up to
\* ids, on both backends.
C5_SaveListRoundTrip ==
  [][\A p \in Procs :
       Writes(p, "save") =>
         LET fresh == {j \in 1..Len(ListAll') :
                         \A k \in 1..Len(ListAll) : ListAll[k].id # ListAll'[j].id}
         IN /\ Cardinality(fresh) = 1
            /\ \A j \in fresh : Observed(ListAll'[j]) = ExpectedOfDraft(arg[p].data)]_vars

\* C6: update(id, {items: I2}) followed by getById(id) returns exactly the
\* items of I2 (up to ids and the item defaults): no item of the prior set
\* survives, on both backends.
C6_UpdateReplacesItems ==
  \A p \in Procs :
    (Settled(p, "updateReceiptInDatabase", "resolved") /\ arg[p].data.hasItems) =>
       /\ GetById(arg[p].id) # <<>>
       /\ Len(GetById(arg[p].id)[1].items) = Len(arg[p].data.items)
       /\ BareItems(GetById(arg[p].id)[1].items) = BareItems(arg[p].data.items)

\* an update with a one-item list has resolved for a receipt that had two items
C6_Witness ==
  \E p \in Procs :
    /\ Settled(p, "updateReceiptInDatabase", "resolved")
    /\ arg[p].data.hasItems
    /\ Len(arg[p].data.items) = 1
    /\ Len(res[p][2].items) = 2
    /\ GetById(arg[p].id) # <<>>

\* whether the stored receipts / the rows of receipt_items know receipt id
Listed(id) == \E j \in 1..Len(ListAll) : ListAll[j].id = id
ItemRowsOf(id) == {j \in 1..Len(tItems) : tItems[j].receipt_id = ParseInt(id)}

\* C7 as stated: once delete(id) has resolved, neither listAll() nor
\* getById(id) returns the receipt, and on SQLite no row of receipt_items
\* carries its id.
C7_DeletedNeverReturned ==
  \A p \in Procs :
    Settled(p, "deleteReceiptFromDatabase", "resolved") =>
       /\ GetById(arg[p].id) = <<>>
       /\ ~Listed(arg[p].id)
       /\ platform = "mobile" => ItemRowsOf(arg[p].id) = {}

\* C7, amended: the write of delete(id) removes the receipt from what
\* listAll() and getById(id) return.  On SQLite a receipt that is gone never
\* comes back and no row of receipt_items is ever without its receipts row.
\* On AsyncStorage a receipt that is gone comes back only by the write of a
\* save, update or delete that had read the array while the receipt was in it.
C7_DeleteRemovesReceiptAndItems ==
  [][/\ \A p \in Procs :
          Writes(p, "delete") => (GetById(arg[p].id)' = <<>> /\ ~Listed(arg[p].id)')
     /\ platform = "mobile" =>
          /\ \A rid \in 1..seqReceipts :
               MobileGet(tReceipts, tItems, NumToString(rid)) = <<>> =>
                 MobileGet(tReceipts', tItems', NumToString(rid)) = <<>>
          /\ \A j \in 1..Len(tItems') :
               \E k \in 1..Len(tReceipts') : tReceipts'[k].id = tItems'[j].receipt_id
     /\ platform = "web" =>
          \A k \in 1..webSeq :
            (WebGet(blob, WebId(k)) = <<>> /\ WebGet(blob', WebId(k)) # <<>>) =>
               \E p \in Procs : /\ pc[p] = "wread" /\ pc'[p] = "ret"
                                /\ WebGet(snap[p], WebId(k)) # <<>>]_vars

\* a delete has resolved on SQLite for a receipt that had been stored with items
C7_Witness ==
  \E p \in Procs :
    /\ Settled(p, "deleteReceiptFromDatabase", "resolved")
    /\ platform = "mobile"
    /\ ParseInt(arg[p].id) \in 1..seqReceipts
    /\ seqItems > 0
    /\ GetById(arg[p].id) = <<>>
    /\ ItemRowsOf(arg[p].id) = {}

\* the six fields of a stored record that update may carry over
Kept(r) ==
  [merchantName |-> r.merchantName, date |-> r.date, totalAmount |-> r.totalAmount,
   taxAmount |-> r.taxAmount, imageUri |-> r.imageUri, category |-> r.category]
TextFields == {"merchantName", "date", "imageUri", "category"}
AmountFields == {"totalAmount", "taxAmount"}

\* the fields the payload leaves out, by their current names
Omitted(d) ==
  {f \in TextFields : d[f] = Undef} \cup {f \in AmountFields : d[f] = UndefN}
\* the fields the payload leaves out under their current name and their alias
OmittedWithAlias(d) ==
  Omitted(d) \ ({"totalAmount" : x \in {d.total} \ {UndefN}}
                  \cup {"taxAmount" : x \in {d.tax} \ {UndefN}})

\* C8 as stated: every field among merchantName, date, totalAmount,
\* taxAmount, imageUri, category that is absent from the payload has after
\* update(id, partial) the value it had in storage before.
C8_OmittedFieldsKept ==
  \A p \in Procs :
    Settled(p, "updateReceiptInDatabase", "resolved") =>
       /\ GetById(arg[p].id) # <<>>
       /\ \A f \in Omitted(arg[p].data) :
            Kept(GetById(arg[p].id)[1])[f] = Kept(res[p][2])[f]

\* C8, amended: every one of the six fields that is absent from the payload
\* under its current name and under its legacy alias (total for totalAmount,
\* tax for taxAmount) has after update(id, partial) the value it had in
\* storage before.
C8_OmittedFieldsKeptUnlessAliased ==
  \A p \in Procs :
    Settled(p, "updateReceiptInDatabase", "resolved") =>
       /\ GetById(arg[p].id) # <<>>
       /\ \A f \in OmittedWithAlias(arg[p].data) :
            Kept(GetById(arg[p].id)[1])[f] = Kept(res[p][2])[f]

\* an update that names only the category has resolved for a receipt whose
\* other fields are not the defaults
C8_Witness ==
  \E p \in Procs :
    /\ Settled(p, "updateReceiptInDatabase", "resolved")
    /\ arg[p].data = PartCategory
    /\ GetById(arg[p].id) # <<>>
    /\ GetById(arg[p].id)[1].merchantName = "Cafe X"
    /\ GetById(arg[p].id)[1].totalAmount = 5
    /\ GetById(arg[p].id)[1].category = "Groceries"

\* C9: update(id, partial) throws and writes nothing when id names no
\* record, also when the record was deleted after the update fetched it; an
\* update never returns normally without having updated a record.
C9_UpdateNeverResolvesWithoutRecord ==
  [][\A p \in Procs :
       /\ (fn[p] = "updFetch" /\ pc[p] = "ret" /\ res[p] = <<>> /\ Steps(p))
            => (pc'[p] = "thrown" /\ UNCHANGED backVars)
       /\ Writes(p, "update") => GetById(arg[p].id)' # <<>>]_vars

\* C10: getById(id) never raises; it returns null for an id that is not in
\* storage and the stored receipt with its items for an id that is.
C10_GetByIdReturnsStored ==
  \A p \in Procs :
    (pc[p] = "done" /\ op[p] = "getReceiptById") =>
       (outcome[p] = "resolved" /\ res[p] = GetById(arg[p].id))

\* the position of a stored receipt in the order of the saves: ids are handed
\* out in that order on both backends
SaveRank(r) ==
  IF platform = "web" THEN CHOOSE k \in 1..Len(WebIdStr) : WebId(k) = r.id
  ELSE ParseInt(r.id)

\* C11: listAll() returns the stored receipts with their items, ordered by
\* creation time descending: the most recently saved receipt comes first, on
\* both backends.
C11_ListedNewestFirst ==
  /\ \A i \in 1..Len(ListAll) : \A j \in 1..Len(ListAll) :
       i < j => /\ SaveRank(ListAll[i]) > SaveRank(ListAll[j])
                /\ ListAll[i].createdAt >= ListAll[j].createdAt
  /\ \A i \in 1..Len(ListAll) : ListAll[i].items = GetById(ListAll[i].id)[1].items

\* a payload that names merchant, total and tax by their legacy names only
LegacyOnly(d) ==
  /\ d.merchantName = Undef /\ d.totalAmount = UndefN /\ d.taxAmount = UndefN
  /\ d.store # Undef /\ d.total # UndefN /\ d.tax # UndefN

\* the most recently saved of the stored receipts
Newest ==
  ListAll[CHOOSE i \in 1..Len(ListAll) :
            \A j \in 1..Len(ListAll) : SaveRank(ListAll[i]) >= SaveRank(ListAll[j])]

\* the stored record that the call of slot p wrote
WrittenBy(p) ==
  IF fn[p] = "save" THEN Newest ELSE GetById(arg[p].id)[1]

\* C12: a record written with only the legacy names store, total and tax
\* through the adapter's save or update is read back with merchantName equal
\* to the written store, totalAmount to the written total and taxAmount to
\* the written tax.
C12_LegacyNamesReadBack ==
  \A p \in Procs :
    (/\ pc[p] = "done" /\ outcome[p] = "resolved"
     /\ op[p] \in {"saveReceiptToDatabase", "updateReceiptInDatabase"}
     /\ LegacyOnly(arg[p].data)) =>
       /\ WrittenBy(p).merchantName = arg[p].data.store
       /\ WrittenBy(p).totalAmount = arg[p].data.total
       /\ WrittenBy(p).taxAmount = arg[p].data.tax

\* a record that carries the legacy names next to the current ones, with the
\* same values
ExposesAliases(r) ==
  /\ {"store", "total", "tax"} \subseteq DOMAIN r
  /\ r.store = r.merchantName
  /\ r.total = r.totalAmount
  /\ r.tax = r.taxAmount

\* C13: every record that listAll() or getById() returns, and so every
\* receipt the store holds after a load, exposes store = merchantName,
\* total = totalAmount and tax = taxAmount, on both backends.
C13_ReadsExposeAliases ==
  /\ \A p \in Procs :
       (fn[p] \in {"getAll", "getById"} /\ pc[p] = "ret") =>
          \A i \in 1..Len(res[p]) : ExposesAliases(res[p][i])
  /\ \A i \in 1..Len(receipts) : ExposesAliases(receipts[i])

\* C14: after any sequence of addReceipt, updateReceipt and deleteReceipt
\* calls every receipt in storage has at least one item; a write without a
\* valid item is rejected before any backend call.
C14_StoredReceiptsHaveItems ==
  \A i \in 1..Len(ListAll) : Len(ListAll[i].items) >= 1

\* the sum of price x quantity over a draft's items, a quantity that is left
\* out counting as 1
RECURSIVE SumOfItems(_)
SumOfItems(items) ==
  IF items = <<>> THEN 0
  ELSE SumOfItems(Tail(items)) + Head(items).price * DefaultN(Head(items).quantity, 1)

\* the total a draft is to be persisted with
ExpectedTotal(d) ==
  IF d.totalAmount # UndefN THEN d.totalAmount
  ELSE IF d.total # UndefN THEN d.total
  ELSE SumOfItems(d.items)

\* C15: addReceipt of a draft that has neither totalAmount nor total and has
\* at least one item persists totalAmount = the sum of price x quantity
\* over the draft's items; a draft with an explicit total is persisted with
\* that total.
C15_DerivedTotal ==
  [][\A p \in Procs :
       (Writes(p, "save") /\ op[p] = "addReceipt" /\ Len(arg[p].data.items) >= 1) =>
          Newest'.totalAmount = ExpectedTotal(arg[p].data)]_vars

\* the receipts the scan screen makes of extraction results without a named item
ScannedWithoutItems ==
  {ProcessReceiptImage(ExtractReceiptData(x), "img1") :
     x \in {y \in Extractions :
              \A j \in 1..Len(y.items) : FalsyS(y.items[j].name) \/ Trim(y.items[j].name) = ""}}

\* C16: an extraction result without a named item, passed through
\* extractReceiptData, processReceiptImage and addReceipt, is persisted as a
\* receipt with exactly one item whose price equals the persisted total.
C16_ZeroItemCoercion ==
  [][\A p \in Procs :
       (Writes(p, "save") /\ op[p] = "addReceipt" /\ arg[p].data \in ScannedWithoutItems) =>
          /\ Len(Newest'.items) = 1
          /\ Newest'.items[1].price = Newest'.totalAmount]_vars

\* the scan of an extraction with total 12 and no items has been added
C16_Witness ==
  \E p \in Procs :
    /\ Settled(p, "addReceipt", "resolved")
    /\ arg[p].data = ProcessReceiptImage(ExtractReceiptData(ExtractEmpty), "img1")
    /\ Len(Newest.items) = 1
    /\ Newest.items[1].name = "Purchase"
    /\ Newest.items[1].price = 12
    /\ Newest.totalAmount = 12

\* a draft with exactly one item that has a price and a quantity, no
\* explicit total and no category
OneItemDraft(d) ==
  /\ Len(d.items) = 1 /\ d.items[1].price > 0 /\ d.items[1].quantity > 0
  /\ d.totalAmount = UndefN /\ d.total = UndefN /\ d.category = Undef

\* C17: starting from an empty store, once addReceipt of a draft with one item
\* (price p, quantity q), no total and no category has resolved,
\* getTotalSpending() is p*q and getCategorySpending() is {Other: p*q}; once
\* the deleteReceipt that empties the storage again has resolved,
\* getTotalSpending() is 0.
C17_AddThenDeleteScenario ==
  \A p \in Procs :
    /\ (Settled(p, "addReceipt", "resolved") /\ ops = 1 /\ Len(ListAll) = 1
          /\ OneItemDraft(arg[p].data)) =>
         LET i == arg[p].data.items[1]
         IN /\ getTotalSpending = i.price * i.quantity
            /\ getCategorySpending = [c \in {"Other"} |-> i.price * i.quantity]
    /\ (Settled(p, "deleteReceipt", "resolved") /\ ops = 2 /\ ListAll = <<>>) =>
         getTotalSpending = 0

\* C18: whatever the interleaving of initDatabase and the adapter operations,
\* the SQLite database is opened, and its schema and migration statements are
\* run, at most once in the life of the process.
C18_OpenedAtMostOnce == opens <= 1

\* C19: when both attempts of ensureDatabaseConnection have failed, the adapter
\* operation that asked for the connection throws to its caller: it does not
\* return a normal result such as an empty list or null.
C19_NoConnectionThrows ==
  [][\A p \in Procs :
       (pc[p] = "ens2" /\ conn[p] = 0 /\ Steps(p)) => pc'[p] = "thrown"]_vars

\* what getReceiptById returns for the receipt that saveReceiptToDatabase(d)
\* stores on backend b, in an empty storage at time 0
SavedOn(b, d) ==
  LET f == SaveFields(d)
  IN IF b = "web" THEN WebNewReceipt(f, 1, 0)
     ELSE RowReceipt(ReceiptRow(f, 1, 0, 0), ItemRows(f.items, Len(f.items), 0, 1))

\* C20: the two backends return the same receipt for the same save: the
\* receipt a save has just stored on the running backend has the field values
\* and the item set (ids and timestamps aside) that the other backend returns
\* for the same argument.
C20_BackendsAgreeOnSave ==
  [][\A p \in Procs :
       Writes(p, "save") =>
         /\ Observed(Newest') = Observed(SavedOn(platform, arg[p].data))
         /\ Observed(Newest') =
              Observed(SavedOn(IF platform = "web" THEN "mobile" ELSE "web",
                               arg[p].data))]_vars

(***************************************************************************)
(* Properties of getReceiptInsights (checked under SpecInsights)           *)
(***************************************************************************)
\* the insights a call of getReceiptInsights has just returned in slot p
Returned(p) == res[p][1]

C22_InsightsOfEmptySet ==
  \A p \in Procs :
    /\ op[p] = "getReceiptInsights" => pc[p] # "thrown" /\ outcome[p] # "rejected"
    /\ Settled(p, "getReceiptInsights", "resolved") =>
         LET i == Returned(p)
         IN /\ i.totalReceipts = 0 =>
                 /\ i.totalSpending = 0
                 /\ i.averageSpending = 0
                 /\ i.categoryBreakdown = <<>>
                 /\ i.topCategories = <<>>
                 /\ i.recentTransactions = <<>>
            /\ i.totalReceipts > 0 =>
                 i.averageSpending = Quotient(i.totalSpending, i.totalReceipts)

\* getReceiptInsights has returned the insights of an empty list
C22_Witness ==
  \E p \in Procs :
    /\ Settled(p, "getReceiptInsights", "resolved")
    /\ Returned(p).totalReceipts = 0
    /\ Returned(p).averageSpending = 0

(***************************************************************************)
(* Properties of a store whose calls are awaited (checked under SpecUser)  *)
(***************************************************************************)
\* the step in which the reload of the mutation in slot p reads storage
\* without failing: on AsyncStorage the getItem issued as the reload is
\* entered, on SQLite the SELECTs after the connection was obtained
ReloadReads(p) ==
  /\ op[p] \in Mutators
  /\ faults' = faults
  /\ pc'[p] = "ret" /\ fn'[p] = "getAll"
  /\ IF platform = "web" THEN fn[p] \in WriteFns ELSE fn[p] = "getAll" /\ pc[p] = "body"

\* the list rs shows the write of the mutation in slot p as complete
ShowsWriteOf(p, rs) ==
  CASE op[p] = "addReceipt" ->
         LET f == SaveFields(AddPayload(arg[p].data))
             id == IF platform = "web" THEN WebId(webSeq) ELSE NumToString(seqReceipts)
         IN \E j \in 1..Len(rs) :
              /\ rs[j].id = id
              /\ rs[j].totalAmount = f.totalAmount
              /\ Len(rs[j].items) = Len(f.items)
    [] op[p] = "updateReceipt" ->
         \E j \in 1..Len(rs) :
           /\ rs[j].id = arg[p].id
           /\ arg[p].data.hasItems => Len(rs[j].items) = Len(arg[p].data.items)
    [] op[p] = "deleteReceipt" ->
         \A j \in 1..Len(rs) : rs[j].id # arg[p].id

\* C23: within one addReceipt, updateReceipt or deleteReceipt the backend
\* write, every item insert included, is complete before the reload reads:
\* what the reload reads is the storage as it is and shows the mutation's own
\* write.
C23_ReloadReadsAfterWrite ==
  [][\A p \in Procs :
       ReloadReads(p) => res'[p] = ListAll /\ ShowsWriteOf(p, res'[p])]_vars

\* the reload of an addReceipt of two items has read both of them
C23_Witness ==
  \E p \in Procs :
    /\ op[p] = "addReceipt" /\ fn[p] = "getAll" /\ pc[p] = "ret"
    /\ arg[p].data = DraftFull
    /\ \E j \in 1..Len(res[p]) :
         /\ res[p][j].id = IF platform = "web" THEN WebId(webSeq)
                           ELSE NumToString(seqReceipts)
         /\ Len(res[p][j].items) = 2

(***************************************************************************)
(* Properties of the connection (checked under SpecAdapter)                *)
(***************************************************************************)
\* slot p is obtaining the SQLite connection
Connecting(p) == pc[p] \in {"import0", "import1", "ens1", "retry", "import2", "ens2"}

\* C24: a call that needs the SQLite connection, through whichever exported
\* function, fails while obtaining it if and only if a second attempt was
\* made and both attempts gave no handle; otherwise it goes on with the
\* handle or makes the second attempt.
C24_FailsIffBothAttemptsFail ==
  [][\A p \in Procs :
       (Connecting(p) /\ Steps(p)) =>
          /\ pc'[p] = "thrown" <=> (pc[p] = "ens2" /\ conn[p] = 0)
          /\ pc'[p] \in {"thrown", "body", "ens1", "retry", "import2", "ens2"}
                         \cup (IF fn[p] = "init" THEN {"ret"} ELSE {})]_vars

\* the step in which the AsyncStorage write of slot p rewrites the stored array
Rewrites(p) ==
  /\ platform = "web"
  /\ pc[p] = "wread" /\ pc'[p] = "ret"
  /\ fn[p] = "update" => \E j \in 1..Len(snap[p]) : snap[p][j].id = arg[p].id

\* the id the write of slot p is about
TargetOf(p) == IF fn[p] = "save" THEN WebId(webSeq + 1) ELSE arg[p].id

\* C25: on AsyncStorage the array a write stores is made of the array that
\* write read: of every receipt but the one it is about, it stores what it
\* read, so what another write stored in between is gone although that write
\* resolved (the last writer wins).
C25_LastWriterWins ==
  [][\A p \in Procs :
       Rewrites(p) =>
         /\ \A k \in 1..Len(WebIdStr) :
              WebId(k) # TargetOf(p) => WebGet(blob', WebId(k)) = WebGet(snap[p], WebId(k))
         /\ \A j \in 1..Len(blob') :
              blob'[j].id # TargetOf(p) => \E i \in 1..Len(snap[p]) : snap[p][i] = blob'[j]]_vars

\* two overlapping saves have both resolved and the receipt of the first
\* writer is not stored
C25_Witness ==
  /\ platform = "web"
  /\ webSeq >= 2
  /\ \E p \in Procs : \E q \in Procs \ {p} :
       /\ Settled(p, "saveReceiptToDatabase", "resolved")
       /\ op[q] = "saveReceiptToDatabase" /\ pc[q] = "ret"
  /\ WebGet(blob, WebId(webSeq)) # <<>>
  /\ WebGet(blob, WebId(webSeq - 1)) = <<>>

(***************************************************************************)
(* Further properties of the store (checked under Spec)                    *)
(***************************************************************************)
\* a call of the store has just resolved, no other call is in flight and no
\* failure is on record
Quiescent ==
  /\ \E p \in Procs :
       /\ pc[p] = "done" /\ outcome[p] = "resolved"
       /\ op[p] \in Mutators \cup {"loadReceipts"}
       /\ \A q \in Procs \ {p} : pc[q] = "idle"
  /\ error = Null

\* C26: whenever the calls of addReceipt, updateReceipt, deleteReceipt and
\* loadReceipts have resolved and none is in flight, the store's `receipts`
\* list equals what getAllReceiptsFromDatabase returns then, whatever the
\* interleaving of the calls was.
C26_QuiescentListEqualsBackend == Quiescent => receipts = ListAll

\* C27: loadReceipts replaces the in-memory list only with what was read from
\* the backend: with awaited calls, every assignment that changes `receipts`
\* assigns the stored list, so a non-empty list is never replaced by an empty
\* one while storage holds receipts.
C27_ListOnlyReplacedByStoredData ==
  [][receipts' # receipts => receipts' = ListAll']_vars

(***************************************************************************)
(* Properties of the scan flow (checked under SpecScreens)                 *)
(***************************************************************************)
\* C28: once the addReceipt(receiptData) of the scan screen has resolved, the
\* store's getReceiptById(receiptData.id), with the id made on the client,
\* returns the receipt that was stored for it.
C28_ClientIdFindsStoredReceipt ==
  \A p \in Procs :
    (Settled(p, "addReceipt", "resolved") /\ arg[p].data \in Scanned) =>
       /\ StoreGetReceiptById(arg[p].data.id) # <<>>
       /\ StoreGetReceiptById(arg[p].data.id)[1].merchantName = arg[p].data.merchantName

\* C29: the receipt that addReceipt stores has the category of the draft, and
\* 'Other' only when the draft has none.
C29_AddKeepsCategory ==
  [][\A p \in Procs :
       (Writes(p, "save") /\ op[p] = "addReceipt") =>
          Newest'.category = DefaultS(arg[p].data.category, "Other")]_vars

\* C30: update stores every amount the payload supplies, 0 included: after
\* update(id, {totalAmount: v}) the receipt read by getById(id) has
\* totalAmount v, and likewise for taxAmount.
C30_UpdateAppliesSuppliedAmounts ==
  [][\A p \in Procs :
       (Writes(p, "update") /\ GetById(arg[p].id)' # <<>>) =>
          /\ arg[p].data.totalAmount # UndefN =>
               GetById(arg[p].id)'[1].totalAmount = arg[p].data.totalAmount
          /\ arg[p].data.taxAmount # UndefN =>
               GetById(arg[p].id)'[1].taxAmount = arg[p].data.taxAmount]_vars

====
